---- MODULE Spec2Model ----
(***************************************************************************)
(* Finance-dashboard API: token manager (pkg/jwt), identity service        *)
(* (internal/service auth), categorization engine and transaction          *)
(* orchestrator (internal/service/transaction_service.go) over their       *)
(* PostgreSQL repositories.                                                *)
(*                                                                         *)
(* Six specifications share the module:                                    *)
(*   SpecJwt   token issuance and validation over a clock                  *)
(*   SpecHttp  the Refresh handler and the auth middleware over tokens     *)
(*   SpecAuth  Register / Login / LoginWithGoogle over the users table     *)
(*   SpecCat   CreateRule / DeleteRule / Categorize over the rules table   *)
(*   SpecTx    transaction Create / GetByID / GetAll / Update / Delete     *)
(*   SpecRace  concurrent CreateRule, Register and LoginWithGoogle calls   *)
(* Optional (pointer) fields are sequences of length 0 (nil) or 1.         *)
(***************************************************************************)
EXTENDS Integers, Sequences, FiniteSets, TLC

VARIABLES
    now,        \* wall clock, in ticks
    issued,     \* tokens in circulation, each with the call that minted it
    nextJti,    \* source of fresh token ids (uuid.New)
    tokLast,    \* outcome of the last token-manager call
    users,      \* rows of table users
    nextUserID, \* source of fresh user ids (uuid.New)
    authLast,   \* outcome of the last identity-service call; again: it repeats the call before it
    registered, \* history: the (email, password, user) of every Register that returned a user
    rules,      \* rows of table user_category_rules
    txs,        \* rows of table transactions
    nextRuleID, \* source of fresh rule ids
    nextTxID,   \* source of fresh transaction ids
    pending,    \* service calls that passed their ownership check and have not written yet
    txLast,     \* outcome of the last transaction-service call (or step of one)
    createdBy   \* history: the user whose Create stored each transaction id

jwtVars  == <<now, issued, nextJti, tokLast>>
authVars == <<users, nextUserID, authLast, registered>>
txVars   == <<rules, txs, nextRuleID, nextTxID, pending, txLast, createdBy>>
vars     == <<now, issued, nextJti, tokLast, users, nextUserID, authLast, registered,
              rules, txs, nextRuleID, nextTxID, pending, txLast, createdBy>>

None == <<>>
Some(v) == <<v>>
IsNone(o) == Len(o) = 0
IsSome(o) == Len(o) = 1
Val(o) == o[1]

UserIDs == {"u1", "u2"}
Emails  == {"a@x", "b@x"}

(***************************************************************************)
(* Token manager: pkg/jwt/jwt.go over github.com/golang-jwt/jwt/v5.        *)
(* A token is its signing algorithm, the key it was signed with and its    *)
(* JSON claims object: a function from the member names present to values. *)
(***************************************************************************)
TicksPerSecond == 2
AccessSeconds == 1
RefreshSeconds == 2
MaxTime == 5
MaxTokens == 2

Secret == "secretKey"
OtherSecret == "otherKey"

accessDuration == AccessSeconds * TicksPerSecond
refreshDuration == RefreshSeconds * TicksPerSecond

\* jwt.NewNumericDate truncates to TimePrecision (one second).
NewNumericDate(t) == t - (t % TicksPerSecond)

\* encoding/json into a struct: a member absent from the object leaves the
\* field at its zero value; members the struct does not declare are dropped.
Member(obj, name, zero) == IF name \in DOMAIN obj THEN obj[name] ELSE zero

\* A *NumericDate member: nil when the object has no such member.
DateMember(obj, name) == IF name \in DOMAIN obj THEN Some(obj[name]) ELSE None

\* json.Unmarshal into jwt.RegisteredClaims
DecodeRegisteredClaims(obj) ==
    [Subject   |-> Member(obj, "sub", ""),
     ExpiresAt |-> DateMember(obj, "exp"),
     NotBefore |-> DateMember(obj, "nbf"),
     IssuedAt  |-> DateMember(obj, "iat"),
     ID        |-> Member(obj, "jti", 0)]

\* Mutant: a decoder that takes the user id from the subject member.
DecodeClaims_SubjectAsUser(obj) ==
    [UserID    |-> Member(obj, "sub", ""),
     Email     |-> Member(obj, "email", ""),
     Subject   |-> Member(obj, "sub", ""),
     ExpiresAt |-> DateMember(obj, "exp"),
     NotBefore |-> DateMember(obj, "nbf"),
     IssuedAt  |-> DateMember(obj, "iat"),
     ID        |-> Member(obj, "jti", 0)]

\* json.Unmarshal into Claims (UserID, Email and the embedded RegisteredClaims)
DecodeClaims(obj) ==
    [UserID    |-> Member(obj, "user_id", ""),
     Email     |-> Member(obj, "email", ""),
     Subject   |-> Member(obj, "sub", ""),
     ExpiresAt |-> DateMember(obj, "exp"),
     NotBefore |-> DateMember(obj, "nbf"),
     IssuedAt  |-> DateMember(obj, "iat"),
     ID        |-> Member(obj, "jti", 0)]

\* The claims object GenerateAccessToken signs. RegisteredClaims marshals with
\* omitempty, so the empty Subject is not a member.
AccessClaimsJSON(userID, email, t, jti) ==
    [user_id |-> userID, email |-> email,
     exp |-> NewNumericDate(t + accessDuration),
     iat |-> NewNumericDate(t), nbf |-> NewNumericDate(t), jti |-> jti]

\* Mutant: refresh claims that carry the user under user_id and no subject.
RefreshClaimsJSON_NoSubject(userID, t, jti) ==
    [user_id |-> userID,
     exp |-> NewNumericDate(t + refreshDuration),
     iat |-> NewNumericDate(t), nbf |-> NewNumericDate(t), jti |-> jti]

\* The claims object GenerateRefreshToken signs.
RefreshClaimsJSON(userID, t, jti) ==
    [sub |-> userID,
     exp |-> NewNumericDate(t + refreshDuration),
     iat |-> NewNumericDate(t), nbf |-> NewNumericDate(t), jti |-> jti]

SignedString(alg, key, claims) == [alg |-> alg, key |-> key, claims |-> claims]

\* The key function both validators pass to ParseWithClaims, then the
\* library's signature check and its validation of exp and nbf at time t.
ParseError(tok, t) ==
    LET exp == DateMember(tok.claims, "exp")
        nbf == DateMember(tok.claims, "nbf")
    IN  IF tok.alg # "HS256" THEN "ErrInvalidToken"
        ELSE IF tok.key # Secret THEN "ErrTokenSignatureInvalid"
        ELSE IF IsSome(exp) /\ ~(t < Val(exp)) THEN "ErrTokenExpired"
        ELSE IF IsSome(nbf) /\ t < Val(nbf) THEN "ErrTokenNotValidYet"
        ELSE "nil"

ValidateAccessTokenResult(tok, t) ==
    LET err == ParseError(tok, t)
    IN  IF err # "nil" THEN [err |-> err, claims |-> None]
        ELSE [err |-> "nil", claims |-> Some(DecodeClaims(tok.claims))]

ValidateRefreshTokenResult(tok, t) ==
    LET err == ParseError(tok, t)
    IN  IF err # "nil" THEN [err |-> err, userID |-> ""]
        ELSE [err |-> "nil", userID |-> DecodeRegisteredClaims(tok.claims).Subject]

NoTokCall == [op |-> "none"]

InitJwt ==
    /\ now = 0
    /\ issued = {}
    /\ nextJti = 1
    /\ tokLast = NoTokCall

Tick ==
    /\ now < MaxTime
    /\ now' = now + 1
    /\ UNCHANGED <<issued, nextJti, tokLast>>
    /\ UNCHANGED <<authVars, txVars>>

GenerateAccessToken ==
    /\ Cardinality(issued) < MaxTokens
    /\ \E userID \in UserIDs, email \in Emails :
         LET tok == SignedString("HS256", Secret,
                                 AccessClaimsJSON(userID, email, now, nextJti))
         IN  /\ issued' = issued \cup {[token |-> tok, by |-> "GenerateAccessToken",
                                        via |-> "Manager",
                                        userID |-> userID, email |-> email, at |-> now]}
             /\ tokLast' = [op |-> "GenerateAccessToken", token |-> tok, err |-> "nil"]
    /\ nextJti' = nextJti + 1
    /\ UNCHANGED now
    /\ UNCHANGED <<authVars, txVars>>

GenerateRefreshToken ==
    /\ Cardinality(issued) < MaxTokens
    /\ \E userID \in UserIDs :
         LET tok == SignedString("HS256", Secret,
                                 RefreshClaimsJSON(userID, now, nextJti))
         IN  /\ issued' = issued \cup {[token |-> tok, by |-> "GenerateRefreshToken",
                                        via |-> "Manager",
                                        userID |-> userID, email |-> "", at |-> now]}
             /\ tokLast' = [op |-> "GenerateRefreshToken", token |-> tok, err |-> "nil"]
    /\ nextJti' = nextJti + 1
    /\ UNCHANGED now
    /\ UNCHANGED <<authVars, txVars>>

\* authServiceImpl.GenerateTokens: the access token, then the refresh token, of
\* one user, both minted by the manager.
GenerateTokens ==
    /\ Cardinality(issued) + 2 <= MaxTokens
    /\ \E userID \in UserIDs, email \in Emails :
         LET access == SignedString("HS256", Secret,
                                    AccessClaimsJSON(userID, email, now, nextJti))
             refresh == SignedString("HS256", Secret,
                                     RefreshClaimsJSON(userID, now, nextJti + 1))
         IN  /\ issued' = issued \cup
                    {[token |-> access, by |-> "GenerateAccessToken", via |-> "GenerateTokens",
                      userID |-> userID, email |-> email, at |-> now],
                     [token |-> refresh, by |-> "GenerateRefreshToken", via |-> "GenerateTokens",
                      userID |-> userID, email |-> "", at |-> now]}
             /\ tokLast' = [op |-> "GenerateTokens", userID |-> userID, email |-> email,
                             accessToken |-> Some(access), refreshToken |-> Some(refresh),
                             err |-> "nil"]
    /\ nextJti' = nextJti + 2
    /\ UNCHANGED now
    /\ UNCHANGED <<authVars, txVars>>

\* A token this manager did not mint: another key, or another algorithm.
ForeignToken ==
    /\ Cardinality(issued) < MaxTokens
    /\ \E alg \in {"HS256", "RS256"} :
         LET tok == SignedString(alg, IF alg = "HS256" THEN OtherSecret ELSE Secret,
                                 AccessClaimsJSON("u1", "a@x", now, nextJti))
         IN  /\ issued' = issued \cup {[token |-> tok, by |-> "foreign",
                                        via |-> "foreign",
                                        userID |-> "u1", email |-> "a@x", at |-> now]}
             /\ tokLast' = [op |-> "foreign", token |-> tok, err |-> "nil"]
    /\ nextJti' = nextJti + 1
    /\ UNCHANGED now
    /\ UNCHANGED <<authVars, txVars>>

ValidateAccessToken ==
    /\ \E i \in issued :
         LET r == ValidateAccessTokenResult(i.token, now)
         IN  tokLast' = [op |-> "ValidateAccessToken", of |-> i, at |-> now,
                         err |-> r.err, claims |-> r.claims]
    /\ UNCHANGED <<now, issued, nextJti>>
    /\ UNCHANGED <<authVars, txVars>>

ValidateRefreshToken ==
    /\ \E i \in issued :
         LET r == ValidateRefreshTokenResult(i.token, now)
         IN  tokLast' = [op |-> "ValidateRefreshToken", of |-> i, at |-> now,
                         err |-> r.err, userID |-> r.userID]
    /\ UNCHANGED <<now, issued, nextJti>>
    /\ UNCHANGED <<authVars, txVars>>

\* AuthHandler.Refresh once the body is decoded: the response to a refresh token
\* presented at time t. tokens: the token pair of the response body.
RefreshResponse(token, t) ==
    LET r == ValidateRefreshTokenResult(token, t)
    IN  IF r.err # "nil"
        THEN [status |-> 401, error |-> "invalid refresh token", tokens |-> None]
        ELSE [status |-> 501, error |-> "not implemented", tokens |-> None]

Refresh ==
    /\ \E i \in issued :
         tokLast' = [op |-> "Refresh", of |-> i, at |-> now, err |-> "nil",
                     response |-> RefreshResponse(i.token, now)]
    /\ UNCHANGED <<now, issued, nextJti>>
    /\ UNCHANGED <<authVars, txVars>>

\* An Authorization header value as strings.Split(authHeader, " ") sees it: the
\* sequence of its fields between single spaces. A field is literal text with
\* no space in it, or a token in its compact form. The empty header is the one
\* empty field.
Text(str) == [kind |-> "text", text |-> str, token |-> None]
Jwt(tok) == [kind |-> "jwt", text |-> "", token |-> Some(tok)]
EmptyHeader == <<Text("")>>

\* The header values of requests that carry token tok.
HeaderForms ==
    {"absent", "bearer", "lowercase", "basic", "token only", "two spaces", "trailing field"}
Header(form, tok) ==
    CASE form = "absent" -> EmptyHeader
      [] form = "bearer" -> <<Text("Bearer"), Jwt(tok)>>
      [] form = "lowercase" -> <<Text("bearer"), Jwt(tok)>>
      [] form = "basic" -> <<Text("Basic"), Jwt(tok)>>
      [] form = "token only" -> <<Jwt(tok)>>
      [] form = "two spaces" -> <<Text("Bearer"), Text(""), Jwt(tok)>>
      [] OTHER -> <<Text("Bearer"), Jwt(tok), Text("x")>>

\* Mutant: a middleware that takes the second field as the token whatever the
\* first field is.
MiddlewareResult_AnyScheme(parts, t) ==
    IF parts = EmptyHeader
    THEN [status |-> 401, error |-> "missing authorization header",
          invoked |-> FALSE, ctx |-> None]
    ELSE IF Len(parts) # 2
    THEN [status |-> 401, error |-> "invalid authorization format",
          invoked |-> FALSE, ctx |-> None]
    ELSE IF parts[2].kind # "jwt"
            \/ ValidateAccessTokenResult(Val(parts[2].token), t).err # "nil"
    THEN [status |-> 401, error |-> "invalid or expired token",
          invoked |-> FALSE, ctx |-> None]
    ELSE LET claims == Val(ValidateAccessTokenResult(Val(parts[2].token), t).claims)
         IN  [status |-> 200, error |-> "", invoked |-> TRUE,
              ctx |-> Some([user_id |-> claims.UserID, email |-> claims.Email])]

\* AuthMiddleware.Middleware on a request whose Authorization header splits
\* into parts, at time t. invoked: next.ServeHTTP was called; ctx: the values
\* the request context got; status 200 stands for whatever next answers. A
\* field that is not a compact token does not parse as one.
MiddlewareResult(parts, t) ==
    IF parts = EmptyHeader
    THEN [status |-> 401, error |-> "missing authorization header",
          invoked |-> FALSE, ctx |-> None]
    ELSE IF Len(parts) # 2 \/ parts[1] # Text("Bearer")
    THEN [status |-> 401, error |-> "invalid authorization format",
          invoked |-> FALSE, ctx |-> None]
    ELSE IF parts[2].kind # "jwt"
            \/ ValidateAccessTokenResult(Val(parts[2].token), t).err # "nil"
    THEN [status |-> 401, error |-> "invalid or expired token",
          invoked |-> FALSE, ctx |-> None]
    ELSE LET claims == Val(ValidateAccessTokenResult(Val(parts[2].token), t).claims)
         IN  [status |-> 200, error |-> "", invoked |-> TRUE,
              ctx |-> Some([user_id |-> claims.UserID, email |-> claims.Email])]

Middleware ==
    /\ \E i \in issued, form \in HeaderForms :
         tokLast' = [op |-> "Middleware", of |-> i, at |-> now, err |-> "nil",
                     form |-> form, header |-> Header(form, i.token),
                     result |-> MiddlewareResult(Header(form, i.token), now)]
    /\ UNCHANGED <<now, issued, nextJti>>
    /\ UNCHANGED <<authVars, txVars>>

NextJwt ==
    \/ Tick
    \/ GenerateAccessToken
    \/ GenerateRefreshToken
    \/ GenerateTokens
    \/ ForeignToken
    \/ ValidateAccessToken
    \/ ValidateRefreshToken

\* The HTTP layer over the token manager: requests that present tokens minted
\* by GenerateTokens, or foreign ones, as time passes.
NextHttp ==
    \/ Tick
    \/ GenerateTokens
    \/ ForeignToken
    \/ Refresh
    \/ Middleware

(***************************************************************************)
(* Identity service: authServiceImpl over postgresUserRepository and the   *)
(* users table (email UNIQUE, google_id UNIQUE, check_auth_method).        *)
(***************************************************************************)
GoogleIDs == {"g1", "g2"}
\* "pwLong" stands for a password of more than 72 bytes, which
\* bcrypt.GenerateFromPassword refuses.
Passwords == {"pw1", "pw2", "pwLong"}
Salts == {"s1", "s2"}
CurrencyRUB == "RUB"

\* bcrypt: the digest of a password under a salt; the hash string carries the salt.
BcryptDigest(salt, password) == <<"bcrypt", salt, password>>
GenerateFromPassword(password, salt) ==
    IF password = "pwLong"
    THEN [err |-> "ErrPasswordTooLong", hash |-> None]
    ELSE [err |-> "nil", hash |-> Some([salt |-> salt, digest |-> BcryptDigest(salt, password)])]
\* Mutant: compares against a digest recomputed under a fixed salt instead of the
\* salt the hash carries.
CompareHashAndPassword_FixedSalt(hash, password) ==
    IF hash.digest = BcryptDigest("s1", password) THEN "nil"
    ELSE "ErrMismatchedHashAndPassword"

CompareHashAndPassword(hash, password) ==
    IF hash.digest = BcryptDigest(hash.salt, password) THEN "nil"
    ELSE "ErrMismatchedHashAndPassword"

\* postgresUserRepository.GetByEmail over table tbl
GetByEmail(tbl, email) ==
    LET m == {u \in tbl : u.Email = email}
    IN  IF m = {} THEN [err |-> "ErrUserNotFound", user |-> None]
        ELSE [err |-> "nil", user |-> Some(CHOOSE u \in m : TRUE)]

\* postgresUserRepository.GetByGoogleID over table tbl
GetByGoogleID(tbl, googleID) ==
    LET m == {u \in tbl : u.GoogleID = Some(googleID)}
    IN  IF m = {} THEN [err |-> "ErrUserNotFound", user |-> None]
        ELSE [err |-> "nil", user |-> Some(CHOOSE u \in m : TRUE)]

\* What a lookup call returns: the query's own result, or the error of a failed
\* query (pool failure, cancelled context) and no user. "nil": the query did not fail.
LookupFaults == {"nil", "ErrStore", "ErrCanceled"}

\* Mutant: a failed query reported as not-found.
Lookup_AsNotFound(fault, result) ==
    IF fault = "nil" THEN result ELSE [err |-> "ErrUserNotFound", user |-> None]

Lookup(fault, result) ==
    IF fault = "nil" THEN result ELSE [err |-> fault, user |-> None]

\* The constraints of table users on a row joining the rows in others.
UsersConstraintsHold(others, row) ==
    /\ \A u \in others : u.ID # row.ID
    /\ \A u \in others : u.Email # row.Email
    /\ IsSome(row.GoogleID) => \A u \in others : u.GoogleID # row.GoogleID
    /\ IsSome(row.PasswordHash) \/ IsSome(row.GoogleID)

\* Mutant: an INSERT into a table without constraints.
UserRepoCreate_Unconstrained(tbl, user) == [err |-> "nil", tbl |-> tbl \cup {user}]

\* postgresUserRepository.Create: the INSERT, refused by a violated constraint.
UserRepoCreate(tbl, user) ==
    IF UsersConstraintsHold(tbl, user)
    THEN [err |-> "nil", tbl |-> tbl \cup {user}]
    ELSE [err |-> "ErrConstraint", tbl |-> tbl]

\* Mutant: an Update that writes a NULL password_hash.
UserRepoUpdate_DropsPassword(tbl, user) ==
    LET others == {u \in tbl : u.ID # user.ID}
    IN  IF others = tbl THEN [err |-> "nil", tbl |-> tbl]
        ELSE [err |-> "nil", tbl |-> others \cup {[user EXCEPT !.PasswordHash = None]}]

\* Mutant: an Update that reports success and writes nothing.
UserRepoUpdate_NoWrite(tbl, user) == [err |-> "nil", tbl |-> tbl]

\* postgresUserRepository.Update: UPDATE ... WHERE id = $1 (no row: no effect, no error).
UserRepoUpdate(tbl, user) ==
    LET others == {u \in tbl : u.ID # user.ID}
    IN  IF others = tbl THEN [err |-> "nil", tbl |-> tbl]
        ELSE IF UsersConstraintsHold(others, user)
        THEN [err |-> "nil", tbl |-> others \cup {user}]
        ELSE [err |-> "ErrConstraint", tbl |-> tbl]

\* Mutant: Register without the existence check, leaving the duplicate to the
\* table's UNIQUE constraint.
RegisterResult_NoExistenceCheck(tbl, email, password, id, salt, fault) ==
    LET hashed == GenerateFromPassword(password, salt)
        user == [ID |-> id, Email |-> email, PasswordHash |-> hashed.hash,
                 GoogleID |-> None, GlobalCurrency |-> CurrencyRUB]
        created == UserRepoCreate(tbl, user)
    IN  IF hashed.err # "nil"
        THEN [err |-> hashed.err, user |-> None, tbl |-> tbl]
        ELSE IF created.err # "nil"
        THEN [err |-> created.err, user |-> None, tbl |-> tbl]
        ELSE [err |-> "nil", user |-> Some(user), tbl |-> created.tbl]

\* authServiceImpl.Register
RegisterResult(tbl, email, password, id, salt, fault) ==
    LET existing == Lookup(fault, GetByEmail(tbl, email))
        hashed == GenerateFromPassword(password, salt)
        user == [ID |-> id, Email |-> email, PasswordHash |-> hashed.hash,
                 GoogleID |-> None, GlobalCurrency |-> CurrencyRUB]
        created == UserRepoCreate(tbl, user)
    IN  IF existing.err = "nil" /\ IsSome(existing.user)
        THEN [err |-> "ErrUserAlreadyExists", user |-> None, tbl |-> tbl]
        ELSE IF existing.err # "nil" /\ existing.err # "ErrUserNotFound"
        THEN [err |-> existing.err, user |-> None, tbl |-> tbl]
        ELSE IF hashed.err # "nil"
        THEN [err |-> hashed.err, user |-> None, tbl |-> tbl]
        ELSE IF created.err # "nil"
        THEN [err |-> created.err, user |-> None, tbl |-> tbl]
        ELSE [err |-> "nil", user |-> Some(user), tbl |-> created.tbl]

\* Mutant: Login that reports the store's not-found for an unknown email.
LoginResult_LeakNotFound(tbl, email, password, fault) ==
    LET found == Lookup(fault, GetByEmail(tbl, email))
    IN  IF found.err # "nil"
        THEN [err |-> found.err, user |-> None]
        ELSE IF IsNone(Val(found.user).PasswordHash)
        THEN [err |-> "ErrInvalidCredentials", user |-> None]
        ELSE IF CompareHashAndPassword(Val(Val(found.user).PasswordHash), password) # "nil"
        THEN [err |-> "ErrInvalidCredentials", user |-> None]
        ELSE [err |-> "nil", user |-> found.user]

\* authServiceImpl.Login
LoginResult(tbl, email, password, fault) ==
    LET found == Lookup(fault, GetByEmail(tbl, email))
    IN  IF found.err # "nil"
        THEN IF found.err = "ErrUserNotFound"
             THEN [err |-> "ErrInvalidCredentials", user |-> None]
             ELSE [err |-> found.err, user |-> None]
        ELSE IF IsNone(Val(found.user).PasswordHash)
        THEN [err |-> "ErrInvalidCredentials", user |-> None]
        ELSE IF CompareHashAndPassword(Val(Val(found.user).PasswordHash), password) # "nil"
        THEN [err |-> "ErrInvalidCredentials", user |-> None]
        ELSE [err |-> "nil", user |-> found.user]

\* Mutant: LoginWithGoogle that creates a user without looking one up.
LoginWithGoogleResult_AlwaysCreate(tbl, googleID, email, id, faultG, faultE) ==
    LET user == [ID |-> id, Email |-> email, PasswordHash |-> None,
                 GoogleID |-> Some(googleID), GlobalCurrency |-> CurrencyRUB]
        created == UserRepoCreate(tbl, user)
    IN  IF created.err # "nil"
        THEN [err |-> created.err, user |-> None, tbl |-> tbl]
        ELSE [err |-> "nil", user |-> Some(user), tbl |-> created.tbl]

\* authServiceImpl.LoginWithGoogle
LoginWithGoogleResult(tbl, googleID, email, id, faultG, faultE) ==
    LET byGoogle == Lookup(faultG, GetByGoogleID(tbl, googleID))
        byEmail == Lookup(faultE, GetByEmail(tbl, email))
        linked == [Val(byEmail.user) EXCEPT !.GoogleID = Some(googleID)]
        updated == UserRepoUpdate(tbl, linked)
        user == [ID |-> id, Email |-> email, PasswordHash |-> None,
                 GoogleID |-> Some(googleID), GlobalCurrency |-> CurrencyRUB]
        created == UserRepoCreate(tbl, user)
    IN  IF byGoogle.err = "nil" /\ IsSome(byGoogle.user)
        THEN [err |-> "nil", user |-> byGoogle.user, tbl |-> tbl]
        ELSE IF byEmail.err = "nil" /\ IsSome(byEmail.user)
        THEN IF updated.err # "nil"
             THEN [err |-> updated.err, user |-> None, tbl |-> tbl]
             ELSE [err |-> "nil", user |-> Some(linked), tbl |-> updated.tbl]
        ELSE IF created.err # "nil"
        THEN [err |-> created.err, user |-> None, tbl |-> tbl]
        ELSE [err |-> "nil", user |-> Some(user), tbl |-> created.tbl]

InitAuth ==
    /\ users = {}
    /\ nextUserID = 1
    /\ authLast = [op |-> "none"]
    /\ registered = {}

Register ==
    /\ \E email \in Emails, password \in Passwords, salt \in Salts, fault \in LookupFaults :
         LET r == RegisterResult(users, email, password, nextUserID, salt, fault)
         IN  /\ users' = r.tbl
             /\ authLast' = [op |-> "Register", email |-> email, password |-> password,
                             err |-> r.err, user |-> r.user, fault |-> fault]
             /\ registered' = IF r.err = "nil"
                              THEN registered \cup {[email |-> email, password |-> password,
                                                     user |-> Val(r.user)]}
                              ELSE registered
             /\ nextUserID' = IF r.err = "nil" THEN nextUserID + 1 ELSE nextUserID
    /\ UNCHANGED <<jwtVars, txVars>>

Login ==
    /\ \E email \in Emails, password \in Passwords, fault \in LookupFaults :
         LET r == LoginResult(users, email, password, fault)
         IN  authLast' = [op |-> "Login", email |-> email, password |-> password,
                          err |-> r.err, user |-> r.user, fault |-> fault]
    /\ UNCHANGED <<users, nextUserID, registered>>
    /\ UNCHANGED <<jwtVars, txVars>>

LoginWithGoogle ==
    /\ \E googleID \in GoogleIDs, email \in Emails, faultG, faultE \in LookupFaults :
         LET r == LoginWithGoogleResult(users, googleID, email, nextUserID, faultG, faultE)
         IN  /\ users' = r.tbl
             /\ authLast' = [op |-> "LoginWithGoogle", email |-> email, googleID |-> googleID,
                             err |-> r.err, user |-> r.user,
                             faultG |-> faultG, faultE |-> faultE,
                             again |-> /\ authLast.op = "LoginWithGoogle"
                                       /\ authLast.googleID = googleID
                                       /\ authLast.email = email]
             /\ nextUserID' = IF r.tbl # users /\ Cardinality(r.tbl) > Cardinality(users)
                              THEN nextUserID + 1 ELSE nextUserID
    /\ UNCHANGED registered
    /\ UNCHANGED <<jwtVars, txVars>>

NextAuth ==
    \/ Register
    \/ Login
    \/ LoginWithGoogle

(***************************************************************************)
(* Categorization engine and rule management: transactionServiceImpl over  *)
(* postgresUserCategoryRuleRepository and postgresCategoryRepository.      *)
(* Strings are sequences of characters, so that strings.ToUpper and        *)
(* strings.Contains are computed.                                          *)
(***************************************************************************)
MaxRules == 2

\* Rows of table categories.
Categories == {1, 2}
\* Category ids a request may carry; 3 is the id of no category.
CategoryInputs == {1, 2, 3}

Descriptions == {<<>>, <<"a", "b">>, <<"B", "a">>}
Keywords == {<<"A">>, <<"a", "B">>, <<"b", "b">>}

\* unicode.ToUpper on one character
ToUpperChar(c) ==
    CASE c = "a" -> "A"
      [] c = "b" -> "B"
      [] OTHER -> c

\* strings.ToUpper
ToUpper(str) == [i \in 1..Len(str) |-> ToUpperChar(str[i])]

\* strings.Contains
Contains(str, substr) ==
    \E i \in 0..(Len(str) - Len(substr)) : SubSeq(str, i + 1, i + Len(substr)) = substr

\* The orders in which a SELECT without ORDER BY may return the rows in S.
Orderings(S) ==
    {seq \in [1..Cardinality(S) -> S] : \A i, j \in 1..Cardinality(S) : seq[i] = seq[j] => i = j}

\* postgresUserCategoryRuleRepository.GetByUserID: the rows selected
RuleRepoGetByUserID(tbl, userID) == {r \in tbl : r.UserID = userID}

\* Errors a query can return besides its own: the pool's, or the context's
\* when the request was cancelled.
StoreErrors == {"ErrStore", "ErrCanceled"}

\* What one GetByUserID call inside Categorize can return: the user's rules in
\* some order, or an error and no rules.
RuleFetches(tbl, userID) ==
    {[err |-> "nil", rules |-> o] : o \in Orderings(RuleRepoGetByUserID(tbl, userID))}
        \cup {[err |-> e, rules |-> <<>>] : e \in StoreErrors}

\* postgresUserCategoryRuleRepository.Create: the INSERT, refused by UNIQUE(user_id, keyword)
RuleRepoCreate(tbl, rule) ==
    IF \E r \in tbl : r.UserID = rule.UserID /\ r.Keyword = rule.Keyword
    THEN [err |-> "ErrConstraint", tbl |-> tbl]
    ELSE [err |-> "nil", tbl |-> tbl \cup {rule}]

\* postgresUserCategoryRuleRepository.Delete
RuleRepoDelete(tbl, id) == {r \in tbl : r.ID # id}

\* postgresCategoryRepository.GetByID: the error returned
CategoryRepoGetByID(id) == IF id \in Categories THEN "nil" ELSE "ErrUserNotFound"

\* Mutant: the scan keeps going after a match, so the last matching rule wins.
RECURSIVE CategorizeScan_LastMatch(_, _, _, _)
CategorizeScan_LastMatch(fetched, i, description, tx) ==
    IF i > Len(fetched)
    THEN IF IsSome(tx.CategoryID) /\ tx.IsConfirmed THEN tx ELSE [tx EXCEPT !.IsConfirmed = FALSE]
    ELSE IF Contains(description, ToUpper(fetched[i].Keyword))
    THEN CategorizeScan_LastMatch(fetched, i + 1, description,
             [tx EXCEPT !.CategoryID = Some(fetched[i].CategoryID), !.IsConfirmed = TRUE])
    ELSE CategorizeScan_LastMatch(fetched, i + 1, description, tx)

\* Mutant: a loop that leaves the upper-cased description in the draft.
RECURSIVE CategorizeScan_UppercasesDraft(_, _, _, _)
CategorizeScan_UppercasesDraft(fetched, i, description, tx) ==
    IF i > Len(fetched)
    THEN [tx EXCEPT !.IsConfirmed = FALSE, !.Description = description]
    ELSE IF Contains(description, ToUpper(fetched[i].Keyword))
    THEN [tx EXCEPT !.CategoryID = Some(fetched[i].CategoryID), !.IsConfirmed = TRUE,
                    !.Description = description]
    ELSE CategorizeScan_UppercasesDraft(fetched, i + 1, description, tx)

\* The loop of Categorize over the fetched rules, from index i on.
RECURSIVE CategorizeScan(_, _, _, _)
CategorizeScan(fetched, i, description, tx) ==
    IF i > Len(fetched)
    THEN [tx EXCEPT !.IsConfirmed = FALSE]
    ELSE IF Contains(description, ToUpper(fetched[i].Keyword))
    THEN [tx EXCEPT !.CategoryID = Some(fetched[i].CategoryID), !.IsConfirmed = TRUE]
    ELSE CategorizeScan(fetched, i + 1, description, tx)

\* transactionServiceImpl.Categorize on draft tx, given what GetByUserID returns
\* if it is called: the error returned, the draft as left, whether the call was made.
CategorizeResult(fetch, tx) ==
    IF tx.Description = <<>> THEN [err |-> "nil", tx |-> tx, read |-> FALSE]
    ELSE IF fetch.err # "nil" THEN [err |-> fetch.err, tx |-> tx, read |-> TRUE]
    ELSE [err |-> "nil", read |-> TRUE,
          tx |-> CategorizeScan(fetch.rules, 1, ToUpper(tx.Description), tx)]

\* transactionServiceImpl.CreateRule
CreateRuleResult(tbl, userID, keyword, categoryID, id) ==
    LET rule == [ID |-> id, UserID |-> userID, Keyword |-> keyword, CategoryID |-> categoryID]
        created == RuleRepoCreate(tbl, rule)
    IN  IF CategoryRepoGetByID(categoryID) # "nil"
        THEN [err |-> CategoryRepoGetByID(categoryID), tbl |-> tbl]
        ELSE created

\* Mutant: DeleteRule that deletes by id without looking at the caller's rules.
DeleteRuleResult_NoOwnerCheck(tbl, userID, ruleID) ==
    IF \E r \in tbl : r.ID = ruleID
    THEN [err |-> "nil", tbl |-> RuleRepoDelete(tbl, ruleID)]
    ELSE [err |-> "ErrUnauthorized", tbl |-> tbl]

\* transactionServiceImpl.DeleteRule
DeleteRuleResult(tbl, userID, ruleID) ==
    IF \E r \in RuleRepoGetByUserID(tbl, userID) : r.ID = ruleID
    THEN [err |-> "nil", tbl |-> RuleRepoDelete(tbl, ruleID)]
    ELSE [err |-> "ErrUnauthorized", tbl |-> tbl]

\* The response CategoryRuleHandler.Delete writes for an error of DeleteRule.
RuleErrorResponse(err) ==
    CASE err = "ErrUnauthorized" -> [status |-> 401, error |-> "unauthorized"]
      [] err = "ErrUserNotFound" -> [status |-> 404, error |-> "rule not found"]
      [] OTHER -> [status |-> 500, error |-> "failed to delete rule"]

\* The drafts (model.Transaction values) Categorize is called on for userID:
\* its caller has stamped the draft with that user.
Drafts(userID) ==
    [ID : {0}, UserID : {userID}, Description : Descriptions,
     CategoryID : {None} \cup {Some(c) : c \in Categories}, IsConfirmed : BOOLEAN]

\* The state after construction, over empty tables.
Init ==
    /\ InitJwt
    /\ InitAuth
    /\ rules = {}
    /\ txs = {}
    /\ nextRuleID = 1
    /\ nextTxID = 1
    /\ pending = {}
    /\ txLast = [op |-> "none"]
    /\ createdBy = {}

CreateRule ==
    /\ nextRuleID <= MaxRules
    /\ \E userID \in UserIDs, keyword \in Keywords, categoryID \in CategoryInputs :
         LET r == CreateRuleResult(rules, userID, keyword, categoryID, nextRuleID)
         IN  /\ rules' = r.tbl
             /\ nextRuleID' = IF r.err = "nil" THEN nextRuleID + 1 ELSE nextRuleID
             /\ txLast' = [op |-> "CreateRule", caller |-> userID, keyword |-> keyword,
                           categoryID |-> categoryID, err |-> r.err]
    /\ UNCHANGED <<txs, nextTxID, pending, createdBy>>
    /\ UNCHANGED <<jwtVars, authVars>>

DeleteRule ==
    /\ \E userID \in UserIDs, ruleID \in 1..MaxRules :
         LET r == DeleteRuleResult(rules, userID, ruleID)
         IN  /\ rules' = r.tbl
             /\ txLast' = [op |-> "DeleteRule", caller |-> userID, id |-> ruleID, err |-> r.err,
                           response |-> IF r.err = "nil" THEN None
                                        ELSE Some(RuleErrorResponse(r.err))]
    /\ UNCHANGED <<txs, nextRuleID, nextTxID, pending, createdBy>>
    /\ UNCHANGED <<jwtVars, authVars>>

Categorize ==
    /\ \E userID \in UserIDs :
         \E tx \in Drafts(userID), fetch \in RuleFetches(rules, userID) :
            LET r == CategorizeResult(fetch, tx)
            IN  txLast' = [op |-> "Categorize", caller |-> userID, draft |-> tx,
                           read |-> r.read,
                           fetched |-> IF r.read THEN fetch.rules ELSE <<>>,
                           result |-> r.tx, err |-> r.err]
    /\ UNCHANGED <<rules, txs, nextRuleID, nextTxID, pending, createdBy>>
    /\ UNCHANGED <<jwtVars, authVars>>

NextCat ==
    \/ CreateRule
    \/ DeleteRule
    \/ Categorize

(***************************************************************************)
(* Transaction orchestrator: TransactionHandler and transactionServiceImpl *)
(* over postgresTransactionRepository. A service call that reads, checks   *)
(* the owner and then writes is a call in flight between its steps, so     *)
(* calls of different requests interleave.                                 *)
(***************************************************************************)
MaxTxs == 1
MaxPending == 2

\* The rules in the table while transactions are handled: u1 has two rules that
\* both match "ab", u2 has none.
SeedRules ==
    {[ID |-> 1, UserID |-> "u1", Keyword |-> <<"A">>, CategoryID |-> 1],
     [ID |-> 2, UserID |-> "u1", Keyword |-> <<"a", "B">>, CategoryID |-> 2]}

\* The model.Transaction TransactionHandler.Create builds from a request: the
\* description is required, category and confirmation are not taken from it.
CreateDrafts ==
    [ID : {0}, UserID : {""}, Description : Descriptions \ {<<>>},
     CategoryID : {None}, IsConfirmed : {FALSE}]

\* The model.Transaction TransactionHandler.Update builds from a request and
\* the id in the path: description, category and confirmation as sent. Two
\* requests: one confirms without a category, one sets a category unconfirmed.
UpdatePayloads ==
    {[Description |-> <<"B", "a">>, CategoryID |-> None, IsConfirmed |-> TRUE],
     [Description |-> <<>>, CategoryID |-> Some(2), IsConfirmed |-> FALSE]}
UpdateDrafts ==
    {[ID |-> id, UserID |-> "", Description |-> u.Description,
      CategoryID |-> u.CategoryID, IsConfirmed |-> u.IsConfirmed] :
        id \in 1..MaxTxs, u \in UpdatePayloads}

\* postgresTransactionRepository.GetByID
TxRepoGetByID(tbl, id) ==
    LET m == {t \in tbl : t.ID = id}
    IN  IF m = {} THEN [err |-> "ErrUserNotFound", tx |-> None]
        ELSE [err |-> "nil", tx |-> Some(CHOOSE t \in m : TRUE)]

\* postgresTransactionRepository.Create
TxRepoCreate(tbl, tx) == tbl \cup {tx}

\* Mutant: an UPDATE that also sets user_id from the draft.
TxRepoUpdate_SetsUser(tbl, tx) ==
    {IF t.ID = tx.ID THEN tx ELSE t : t \in tbl}

\* postgresTransactionRepository.Update: the columns the UPDATE sets, on the row with that id
TxRepoUpdate(tbl, tx) ==
    {IF t.ID = tx.ID
     THEN [t EXCEPT !.Description = tx.Description, !.CategoryID = tx.CategoryID,
                    !.IsConfirmed = tx.IsConfirmed]
     ELSE t : t \in tbl}

\* postgresTransactionRepository.Delete
TxRepoDelete(tbl, id) == {t \in tbl : t.ID # id}

\* Mutant: a non-owner is told the transaction does not exist.
OwnerCheck_NotFound(tbl, userID, id) ==
    LET existing == TxRepoGetByID(tbl, id)
    IN  IF existing.err # "nil" THEN [err |-> existing.err, tx |-> None]
        ELSE IF Val(existing.tx).UserID # userID THEN [err |-> "ErrUserNotFound", tx |-> None]
        ELSE existing

\* The opening of GetByID, Update and Delete of transactionServiceImpl: load the
\* record, then compare its owner with the caller.
OwnerCheck(tbl, userID, id) ==
    LET existing == TxRepoGetByID(tbl, id)
    IN  IF existing.err # "nil" THEN [err |-> existing.err, tx |-> None]
        ELSE IF Val(existing.tx).UserID # userID THEN [err |-> "ErrUnauthorized", tx |-> None]
        ELSE existing

\* Mutant: Create that stores the draft whatever Categorize returned.
CreateResult_IgnoresCategorizeError(tbl, fetch, userID, draft, id) ==
    LET stamped == [draft EXCEPT !.ID = id, !.UserID = userID]
        categorized == CategorizeResult(fetch, stamped)
    IN  [err |-> categorized.err, tx |-> Some(categorized.tx),
         tbl |-> TxRepoCreate(tbl, categorized.tx)]

\* transactionServiceImpl.Create, given what the rule fetch inside Categorize returns
CreateResult(tbl, fetch, userID, draft, id) ==
    LET stamped == [draft EXCEPT !.ID = id, !.UserID = userID]
        categorized == CategorizeResult(fetch, stamped)
    IN  IF categorized.err # "nil"
        THEN [err |-> categorized.err, tx |-> None, tbl |-> tbl]
        ELSE [err |-> "nil", tx |-> Some(categorized.tx),
              tbl |-> TxRepoCreate(tbl, categorized.tx)]

\* The response TransactionHandler.GetByID, Update and Delete write for an error
\* of the service: HTTP status and the error text of the body.
TxErrorResponse(op, err) ==
    CASE err = "ErrUserNotFound" -> [status |-> 404, error |-> "transaction not found"]
      [] err = "ErrUnauthorized" -> [status |-> 401, error |-> "unauthorized"]
      [] OTHER -> [status |-> 500,
                    error |-> CASE op = "GetByID" -> "failed to get transaction"
                                [] op = "Update" -> "failed to update transaction"
                                [] OTHER -> "failed to delete transaction"]

\* A step of a service call and what came of it; response: the error response
\* the handler writes when the step returned an error.
TxStep(op, phase, caller, id, err, tx) ==
    [op |-> op, phase |-> phase, caller |-> caller, id |-> id, err |-> err, tx |-> tx,
     response |-> IF err = "nil" THEN None ELSE Some(TxErrorResponse(op, err))]

\* The method set of *transactionServiceImpl, the one type the repository
\* assigns to service.TransactionService.
ServiceMethods ==
    {"Create", "GetByID", "GetByUserID", "Update", "Delete", "Categorize",
     "CreateRule", "GetRules", "DeleteRule", "GetCategories"}

\* The limit of a listing when the request gives none, or gives one that is not positive.
DefaultLimit == 20

\* The limit and offset query parameters as parsed; 0 stands for an absent one.
PageLimits == {0, 1}
PageOffsets == {0, 1}

\* postgresTransactionRepository.GetByUserID without filters: how many rows of
\* the user the LIMIT/OFFSET window returns.
PageLen(tbl, userID, limit, offset) ==
    LET n == Cardinality({t \in tbl : t.UserID = userID})
        rest == IF n > offset THEN n - offset ELSE 0
    IN  IF limit > 0 /\ limit < rest THEN limit ELSE rest

\* postgresTransactionRepository.GetTotalCount
TxRepoGetTotalCount(tbl, userID) == Cardinality({t \in tbl : t.UserID = userID})

\* TransactionHandler.GetAll from the parsed parameters on. listErr: what the
\* listing query returns; countErr: what the count query would return. The
\* single-value type assertion on h.txService panics when the service's type
\* has no GetTotalCount method.
GetAllResult(tbl, methods, userID, limitParam, offsetParam, listErr, countErr) ==
    LET limit == IF limitParam > 0 THEN limitParam ELSE DefaultLimit
        returned == PageLen(tbl, userID, limit, offsetParam)
    IN  IF listErr # "nil"
        THEN [outcome |-> "error", status |-> 500, returned |-> 0, total |-> None,
              limit |-> limit, offset |-> offsetParam]
        ELSE IF "GetTotalCount" \notin methods
        THEN [outcome |-> "panic", status |-> 0, returned |-> returned, total |-> None,
              limit |-> limit, offset |-> offsetParam]
        ELSE [outcome |-> "ok", status |-> 200, returned |-> returned,
              total |-> Some(IF countErr # "nil" THEN returned
                             ELSE TxRepoGetTotalCount(tbl, userID)),
              limit |-> limit, offset |-> offsetParam]

\* The state after construction, over a rules table that holds SeedRules.
InitTx ==
    /\ InitJwt
    /\ InitAuth
    /\ rules = SeedRules
    /\ nextRuleID = 3
    /\ txs = {}
    /\ nextTxID = 1
    /\ pending = {}
    /\ txLast = [op |-> "none"]
    /\ createdBy = {}

Create ==
    /\ nextTxID <= MaxTxs
    /\ \E userID \in UserIDs, draft \in CreateDrafts :
         \E fetch \in RuleFetches(rules, userID) :
            LET r == CreateResult(txs, fetch, userID, draft, nextTxID)
            IN  /\ txs' = r.tbl
                /\ txLast' = [op |-> "Create", phase |-> "write", caller |-> userID,
                               id |-> nextTxID, err |-> r.err, tx |-> r.tx,
                               fetch |-> fetch.err]
                /\ createdBy' = IF r.err = "nil"
                                 THEN createdBy \cup {<<nextTxID, userID>>} ELSE createdBy
                /\ nextTxID' = IF r.err = "nil" THEN nextTxID + 1 ELSE nextTxID
    /\ UNCHANGED <<rules, nextRuleID, pending>>
    /\ UNCHANGED <<jwtVars, authVars>>

GetByID ==
    /\ \E userID \in UserIDs, id \in 1..MaxTxs :
         LET r == OwnerCheck(txs, userID, id)
         IN  txLast' = TxStep("GetByID", "check", userID, id, r.err, r.tx)
    /\ UNCHANGED <<rules, txs, nextRuleID, nextTxID, pending, createdBy>>
    /\ UNCHANGED <<jwtVars, authVars>>

GetAll ==
    /\ \E userID \in UserIDs, limit \in PageLimits, offset \in PageOffsets :
         \E listErr \in {"nil"} \cup StoreErrors, countErr \in {"nil"} \cup StoreErrors :
            LET r == GetAllResult(txs, ServiceMethods, userID, limit, offset, listErr, countErr)
            IN  txLast' = [op |-> "GetAll", phase |-> "list", caller |-> userID, id |-> 0,
                           err |-> listErr, tx |-> None, response |-> None,
                           limitParam |-> limit, offsetParam |-> offset, result |-> r]
    /\ UNCHANGED <<rules, txs, nextRuleID, nextTxID, pending, createdBy>>
    /\ UNCHANGED <<jwtVars, authVars>>

\* Update up to its ownership check: on an error the call returns, otherwise it
\* goes on to its write.
UpdateCheck ==
    /\ \E userID \in UserIDs, draft \in UpdateDrafts :
         LET r == OwnerCheck(txs, userID, draft.ID)
         IN  /\ txLast' = TxStep("Update", "check", userID, draft.ID, r.err, None)
             /\ IF r.err # "nil"
                THEN pending' = pending
                ELSE /\ Cardinality(pending) < MaxPending
                     /\ pending' = pending \cup
                            {[op |-> "Update", phase |-> "write", caller |-> userID,
                              id |-> draft.ID, draft |-> Some(draft)]}
    /\ UNCHANGED <<rules, txs, nextRuleID, nextTxID, createdBy>>
    /\ UNCHANGED <<jwtVars, authVars>>

\* Update: s.txRepo.Update(ctx, tx)
UpdateWrite ==
    /\ \E p \in pending :
         /\ p.op = "Update" /\ p.phase = "write"
         /\ txs' = TxRepoUpdate(txs, Val(p.draft))
         /\ pending' = (pending \ {p}) \cup {[p EXCEPT !.phase = "reload", !.draft = None]}
         /\ txLast' = TxStep("Update", "write", p.caller, p.id, "nil", None)
    /\ UNCHANGED <<rules, nextRuleID, nextTxID, createdBy>>
    /\ UNCHANGED <<jwtVars, authVars>>

\* Update: return s.txRepo.GetByID(ctx, tx.ID)
UpdateReload ==
    /\ \E p \in pending :
         /\ p.op = "Update" /\ p.phase = "reload"
         /\ LET r == TxRepoGetByID(txs, p.id)
            IN  txLast' = TxStep("Update", "reload", p.caller, p.id, r.err, r.tx)
         /\ pending' = pending \ {p}
    /\ UNCHANGED <<rules, txs, nextRuleID, nextTxID, createdBy>>
    /\ UNCHANGED <<jwtVars, authVars>>

\* Delete up to its ownership check.
DeleteCheck ==
    /\ \E userID \in UserIDs, id \in 1..MaxTxs :
         LET r == OwnerCheck(txs, userID, id)
         IN  /\ txLast' = TxStep("Delete", "check", userID, id, r.err, None)
             /\ IF r.err # "nil"
                THEN pending' = pending
                ELSE /\ Cardinality(pending) < MaxPending
                     /\ pending' = pending \cup
                            {[op |-> "Delete", phase |-> "write", caller |-> userID,
                              id |-> id, draft |-> None]}
    /\ UNCHANGED <<rules, txs, nextRuleID, nextTxID, createdBy>>
    /\ UNCHANGED <<jwtVars, authVars>>

\* Delete: return s.txRepo.Delete(ctx, id)
DeleteWrite ==
    /\ \E p \in pending :
         /\ p.op = "Delete" /\ p.phase = "write"
         /\ txs' = TxRepoDelete(txs, p.id)
         /\ pending' = pending \ {p}
         /\ txLast' = TxStep("Delete", "write", p.caller, p.id, "nil", None)
    /\ UNCHANGED <<rules, nextRuleID, nextTxID, createdBy>>
    /\ UNCHANGED <<jwtVars, authVars>>

NextTx ==
    \/ Create
    \/ GetByID
    \/ GetAll
    \/ UpdateCheck
    \/ UpdateWrite
    \/ UpdateReload
    \/ DeleteCheck
    \/ DeleteWrite

(***************************************************************************)
(* Concurrent requests: CreateRule and Register each read, then write, and  *)
(* nothing in the service serializes two requests, so the steps of calls in *)
(* flight interleave. The single INSERT statement is atomic in the store.   *)
(* Here pending keeps every call made, finished calls with their outcome.   *)
(***************************************************************************)
MaxCalls == 2

\* transactionServiceImpl.CreateRule up to s.categoryRepo.GetByID: on an error the
\* call returns it, otherwise it goes on to its insert.
CreateRuleCheck ==
    /\ Cardinality(pending) < MaxCalls
    /\ \E userID \in UserIDs, keyword \in Keywords, categoryID \in CategoryInputs :
         LET err == CategoryRepoGetByID(categoryID)
         IN  /\ pending' = pending \cup
                    {[call |-> Cardinality(pending) + 1, op |-> "CreateRule",
                      phase |-> IF err = "nil" THEN "insert" ELSE "done",
                      caller |-> userID, keyword |-> keyword, categoryID |-> categoryID,
                      err |-> err]}
             /\ txLast' = [op |-> "CreateRule", caller |-> userID, keyword |-> keyword,
                           categoryID |-> categoryID, err |-> err]
    /\ UNCHANGED <<rules, txs, nextRuleID, nextTxID, createdBy>>
    /\ UNCHANGED <<jwtVars, authVars>>

\* transactionServiceImpl.CreateRule: s.ruleRepo.Create(ctx, rule) and the return
CreateRuleInsert ==
    /\ \E p \in pending :
         /\ p.op = "CreateRule" /\ p.phase = "insert"
         /\ LET rule == [ID |-> nextRuleID, UserID |-> p.caller, Keyword |-> p.keyword,
                         CategoryID |-> p.categoryID]
                created == RuleRepoCreate(rules, rule)
            IN  /\ rules' = created.tbl
                /\ nextRuleID' = IF created.err = "nil" THEN nextRuleID + 1 ELSE nextRuleID
                /\ pending' = (pending \ {p}) \cup
                       {[p EXCEPT !.phase = "done", !.err = created.err]}
                /\ txLast' = [op |-> "CreateRule", caller |-> p.caller, keyword |-> p.keyword,
                              categoryID |-> p.categoryID, err |-> created.err]
    /\ UNCHANGED <<txs, nextTxID, createdBy>>
    /\ UNCHANGED <<jwtVars, authVars>>

\* authServiceImpl.Register up to its existence check. overlap: another Register
\* for the email has passed this check and has not created yet.
RegisterCheck ==
    /\ Cardinality(pending) < MaxCalls
    /\ \E email \in Emails, password \in Passwords, salt \in Salts :
         LET existing == GetByEmail(users, email)
             found == existing.err = "nil" /\ IsSome(existing.user)
         IN  /\ pending' = pending \cup
                    {[call |-> Cardinality(pending) + 1, op |-> "Register",
                      phase |-> IF found THEN "done" ELSE "create",
                      email |-> email, password |-> password, salt |-> salt,
                      overlap |-> \E q \in pending :
                                     /\ q.op = "Register" /\ q.phase = "create"
                                     /\ q.email = email,
                      err |-> IF found THEN "ErrUserAlreadyExists" ELSE "nil"]}
             /\ authLast' = [op |-> "Register", email |-> email, password |-> password,
                             err |-> IF found THEN "ErrUserAlreadyExists" ELSE "nil",
                             user |-> None]
    /\ UNCHANGED <<users, nextUserID, registered>>
    /\ UNCHANGED <<rules, txs, nextRuleID, nextTxID, txLast, createdBy>>
    /\ UNCHANGED jwtVars

\* authServiceImpl.Register from bcrypt.GenerateFromPassword to its return
RegisterCreate ==
    /\ \E p \in pending :
         /\ p.op = "Register" /\ p.phase = "create"
         /\ LET hashed == GenerateFromPassword(p.password, p.salt)
                user == [ID |-> nextUserID, Email |-> p.email, PasswordHash |-> hashed.hash,
                         GoogleID |-> None, GlobalCurrency |-> CurrencyRUB]
                created == IF hashed.err # "nil" THEN [err |-> hashed.err, tbl |-> users]
                           ELSE UserRepoCreate(users, user)
            IN  /\ users' = created.tbl
                /\ nextUserID' = IF created.err = "nil" THEN nextUserID + 1 ELSE nextUserID
                /\ registered' = IF created.err = "nil"
                                  THEN registered \cup {[email |-> p.email,
                                                         password |-> p.password, user |-> user]}
                                  ELSE registered
                /\ pending' = (pending \ {p}) \cup
                       {[p EXCEPT !.phase = "done", !.err = created.err]}
                /\ authLast' = [op |-> "Register", email |-> p.email, password |-> p.password,
                                err |-> created.err,
                                user |-> IF created.err = "nil" THEN Some(user) ELSE None]
    /\ UNCHANGED <<rules, txs, nextRuleID, nextTxID, txLast, createdBy>>
    /\ UNCHANGED jwtVars

\* authServiceImpl.LoginWithGoogle up to its lookup by provider id: a user found
\* is returned, otherwise the call goes on to its lookup by email. overlap:
\* another LoginWithGoogle for the same provider id and email is past this
\* lookup and has not written yet.
LoginWithGoogleByGoogleID ==
    /\ Cardinality(pending) < MaxCalls
    /\ \E googleID \in GoogleIDs, email \in Emails :
         LET byGoogle == GetByGoogleID(users, googleID)
             found == byGoogle.err = "nil" /\ IsSome(byGoogle.user)
         IN  /\ pending' = pending \cup
                    {[call |-> Cardinality(pending) + 1, op |-> "LoginWithGoogle",
                      phase |-> IF found THEN "done" ELSE "email",
                      googleID |-> googleID, email |-> email, read |-> None,
                      overlap |-> \E q \in pending :
                                     /\ q.op = "LoginWithGoogle"
                                     /\ q.phase \in {"email", "link", "create"}
                                     /\ q.googleID = googleID /\ q.email = email,
                      err |-> "nil"]}
             /\ authLast' = [op |-> "LoginWithGoogle", email |-> email, googleID |-> googleID,
                             err |-> "nil", user |-> IF found THEN byGoogle.user ELSE None]
    /\ UNCHANGED <<users, nextUserID, registered>>
    /\ UNCHANGED <<rules, txs, nextRuleID, nextTxID, txLast, createdBy>>
    /\ UNCHANGED jwtVars

\* authServiceImpl.LoginWithGoogle: s.userRepo.GetByEmail(ctx, email); read keeps
\* the user the call loaded.
LoginWithGoogleByEmail ==
    /\ \E p \in pending :
         /\ p.op = "LoginWithGoogle" /\ p.phase = "email"
         /\ LET byEmail == GetByEmail(users, p.email)
                found == byEmail.err = "nil" /\ IsSome(byEmail.user)
            IN  /\ pending' = (pending \ {p}) \cup
                       {[p EXCEPT !.phase = IF found THEN "link" ELSE "create",
                                  !.read = IF found THEN byEmail.user ELSE None]}
                /\ authLast' = [op |-> "LoginWithGoogle", email |-> p.email,
                                googleID |-> p.googleID, err |-> "nil", user |-> None]
    /\ UNCHANGED <<users, nextUserID, registered>>
    /\ UNCHANGED <<rules, txs, nextRuleID, nextTxID, txLast, createdBy>>
    /\ UNCHANGED jwtVars

\* authServiceImpl.LoginWithGoogle: s.userRepo.Update of the user found by
\* email, or s.userRepo.Create of a new one, and the return.
LoginWithGoogleWrite ==
    /\ \E p \in pending :
         /\ p.op = "LoginWithGoogle" /\ p.phase \in {"link", "create"}
         /\ LET linked == [Val(p.read) EXCEPT !.GoogleID = Some(p.googleID)]
                user == [ID |-> nextUserID, Email |-> p.email, PasswordHash |-> None,
                         GoogleID |-> Some(p.googleID), GlobalCurrency |-> CurrencyRUB]
                written == IF p.phase = "link" THEN UserRepoUpdate(users, linked)
                           ELSE UserRepoCreate(users, user)
                result == IF p.phase = "link" THEN linked ELSE user
            IN  /\ users' = written.tbl
                /\ nextUserID' = IF p.phase = "create" /\ written.err = "nil"
                                 THEN nextUserID + 1 ELSE nextUserID
                /\ pending' = (pending \ {p}) \cup
                       {[p EXCEPT !.phase = "done", !.err = written.err]}
                /\ authLast' = [op |-> "LoginWithGoogle", email |-> p.email,
                                googleID |-> p.googleID, err |-> written.err,
                                user |-> IF written.err = "nil" THEN Some(result) ELSE None]
    /\ UNCHANGED registered
    /\ UNCHANGED <<rules, txs, nextRuleID, nextTxID, txLast, createdBy>>
    /\ UNCHANGED jwtVars

NextRace ==
    \/ CreateRuleCheck
    \/ CreateRuleInsert
    \/ RegisterCheck
    \/ RegisterCreate
    \/ LoginWithGoogleByGoogleID
    \/ LoginWithGoogleByEmail
    \/ LoginWithGoogleWrite

(***************************************************************************)
(* Specifications                                                          *)
(***************************************************************************)
SpecJwt == Init /\ [][NextJwt]_vars

SpecHttp == Init /\ [][NextHttp]_vars

SpecAuth == Init /\ [][NextAuth]_vars

SpecCat == Init /\ [][NextCat]_vars

SpecTx == InitTx /\ [][NextTx]_vars

SpecRace == Init /\ [][NextRace]_vars

(***************************************************************************)
(* Claims                                                                  *)
(***************************************************************************)
\* C1: a token minted by GenerateAccessToken is never accepted by
\* ValidateRefreshToken, and a token minted by GenerateRefreshToken is never
\* accepted by ValidateAccessToken.
C1_TokenTypeSeparation ==
    /\ (tokLast.op = "ValidateRefreshToken" /\ tokLast.of.by = "GenerateAccessToken")
            => tokLast.err # "nil"
    /\ (tokLast.op = "ValidateAccessToken" /\ tokLast.of.by = "GenerateRefreshToken")
            => tokLast.err # "nil"

\* The users stored under the email of the last identity-service call.
UsersOfLastEmail == {u \in users : u.Email = authLast.email}

NoSuchEmail == UsersOfLastEmail = {}
FederatedOnly == \E u \in UsersOfLastEmail : IsNone(u.PasswordHash)
WrongPassword ==
    \E u \in UsersOfLastEmail :
        /\ IsSome(u.PasswordHash)
        /\ Val(u.PasswordHash).digest # BcryptDigest(Val(u.PasswordHash).salt, authLast.password)

\* C2: Login answers with the same outcome, ErrInvalidCredentials and no user,
\* when the lookup finds no user under the email, when the account has no
\* password hash and when the password does not match the stored hash.
C2_LoginNonDistinguishable ==
    (/\ authLast.op = "Login" /\ authLast.fault = "nil"
     /\ (NoSuchEmail \/ FederatedOnly \/ WrongPassword))
        => (authLast.err = "ErrInvalidCredentials" /\ authLast.user = None)

C2_Witness ==
    /\ authLast.op = "Login"
    /\ authLast.fault = "nil"
    /\ FederatedOnly
    /\ authLast.err = "ErrInvalidCredentials"

C4_RegisterDuplicate ==
    [][(/\ authLast'.op = "Register" /\ authLast'.fault = "nil"
        /\ \E u \in users : u.Email = authLast'.email)
          => (authLast'.err = "ErrUserAlreadyExists" /\ users' = users)]_vars

C4_Witness ==
    /\ authLast.op = "Register"
    /\ authLast.fault = "nil"
    /\ authLast.err = "ErrUserAlreadyExists"
    /\ \E r \in registered : r.email = authLast.email /\ r.password # authLast.password
    /\ Cardinality(UsersOfLastEmail) = 1

\* Case-insensitive containment, stated by folding both strings to lower case.
ToLowerChar(c) ==
    CASE c = "A" -> "a"
      [] c = "B" -> "b"
      [] OTHER -> c
Fold(str) == [i \in 1..Len(str) |-> ToLowerChar(str[i])]
KeywordIn(keyword, description) ==
    \E i \in 1..Len(description) :
        /\ i + Len(keyword) - 1 <= Len(description)
        /\ \A k \in 1..Len(keyword) : Fold(keyword)[k] = Fold(description)[i + k - 1]

\* The positions of the fetched rules whose keyword the draft's description contains.
MatchingPositions ==
    {i \in 1..Len(txLast.fetched) : KeywordIn(txLast.fetched[i].Keyword, txLast.draft.Description)}
FirstMatch == CHOOSE i \in MatchingPositions : \A j \in MatchingPositions : i <= j

\* C5: for a non-empty description, Categorize assigns the category of the first
\* rule, in the order the rule store returned them, whose keyword the description
\* contains case-insensitively, and marks the draft confirmed.
C5_FirstMatchInStoreOrder ==
    (txLast.op = "Categorize" /\ txLast.draft.Description # <<>> /\ MatchingPositions # {})
        => /\ txLast.result.CategoryID = Some(txLast.fetched[FirstMatch].CategoryID)
           /\ txLast.result.IsConfirmed = TRUE

\* Two rules match, the later one with a longer keyword and another category.
C5_Witness ==
    /\ txLast.op = "Categorize"
    /\ txLast.draft.Description # <<>>
    /\ Cardinality(MatchingPositions) = 2
    /\ Len(txLast.fetched[2].Keyword) > Len(txLast.fetched[1].Keyword)
    /\ txLast.fetched[2].CategoryID # txLast.fetched[1].CategoryID
    /\ txLast.result.CategoryID = Some(txLast.fetched[1].CategoryID)

\* C6: when the description is non-empty and no rule of the user matches, the
\* draft leaves Categorize with category_id = null and is_confirmed = false,
\* whatever it carried on entry.
C6_NoMatchUncategorized ==
    (/\ txLast.op = "Categorize" /\ txLast.err = "nil"
     /\ txLast.draft.Description # <<>> /\ MatchingPositions = {})
        => /\ txLast.result.CategoryID = None
           /\ txLast.result.IsConfirmed = FALSE

\* C10: DeleteRule by a user on a rule that exists and belongs to another user
\* fails with ErrUnauthorized and leaves the rules table as it was.
C10_DeleteRuleOfOtherUser ==
    [][(txLast'.op = "DeleteRule"
            /\ \E r \in rules : r.ID = txLast'.id /\ r.UserID # txLast'.caller)
          => (txLast'.err = "ErrUnauthorized" /\ rules' = rules)]_vars

C10_Witness ==
    /\ txLast.op = "DeleteRule"
    /\ txLast.err = "ErrUnauthorized"
    /\ \E r \in rules : r.ID = txLast.id /\ r.UserID # txLast.caller

\* A rule of the transaction's owner matches its description and carries its category.
RuleJustifies(t) ==
    \E r \in rules :
        /\ r.UserID = t.UserID
        /\ KeywordIn(r.Keyword, t.Description)
        /\ t.CategoryID = Some(r.CategoryID)

\* C7: every stored transaction is confirmed only with a category that a rule
\* match assigned, and a transaction with category_id = null is never confirmed.
C7_ConfirmationInvariant ==
    \A t \in txs :
        /\ t.IsConfirmed => (IsSome(t.CategoryID) /\ RuleJustifies(t))
        /\ IsNone(t.CategoryID) => ~t.IsConfirmed

OwnerChecked == {"GetByID", "Update", "Delete"}

\* C8: GetByID, Update and Delete by a caller who does not own the transaction
\* fail with ErrUnauthorized, change no stored transaction and start no write;
\* the not-found error is returned only when no transaction has that id.
C8_NonOwnerUnauthorized ==
    [][/\ (/\ txLast'.op \in OwnerChecked
           /\ txLast'.phase = "check"
           /\ \E t \in txs : t.ID = txLast'.id /\ t.UserID # txLast'.caller)
          => (txLast'.err = "ErrUnauthorized" /\ txs' = txs /\ pending' = pending)
       /\ (txLast'.op \in OwnerChecked /\ txLast'.err = "ErrUserNotFound")
          => ~\E t \in txs : t.ID = txLast'.id]_vars

C8_Witness ==
    /\ txLast.op = "Delete"
    /\ txLast.phase = "check"
    /\ txLast.err = "ErrUnauthorized"
    /\ \E t \in txs : t.ID = txLast.id /\ t.UserID # txLast.caller
    /\ \E p \in pending : p.id = txLast.id /\ p.caller # txLast.caller

\* C9: every stored transaction belongs to the user whose Create stored it, no
\* step changes the owner of a transaction, and a stored transaction changes or
\* disappears only in the write of an Update or Delete called by its owner.
C9_OwnershipImmutable ==
    [][/\ \A t \in txs' : <<t.ID, t.UserID>> \in createdBy'
       /\ \A t \in txs, n \in txs' : n.ID = t.ID => n.UserID = t.UserID
       /\ \A t \in txs :
            t \notin txs' => /\ txLast'.op \in {"Update", "Delete"}
                             /\ txLast'.phase = "write"
                             /\ txLast'.id = t.ID
                             /\ txLast'.caller = t.UserID]_vars

\* An owner's Update has written while another call on the same transaction is in flight.
C9_Witness ==
    /\ txLast.op = "Update"
    /\ txLast.phase = "write"
    /\ \E t \in txs :
          /\ t.ID = txLast.id /\ t.UserID = txLast.caller
          /\ t.Description = <<"B", "a">> /\ t.IsConfirmed
    /\ \E p \in pending : p.op = "Delete" /\ p.id = txLast.id

\* C11: DeleteRule on a rule id that no user's rule carries fails with the
\* not-found error, whoever asks.
C11_DeleteRuleNonexistentNotFound ==
    [][(txLast'.op = "DeleteRule" /\ ~\E r \in rules : r.ID = txLast'.id)
          => txLast'.err = "ErrUserNotFound"]_vars

\* C12: a LoginWithGoogle call that directly follows a LoginWithGoogle call with
\* the same (googleID, email) succeeds as the first did, returns a user with the
\* same id, and leaves the users table as the first call left it.
C12_FederatedLoginIdempotent ==
    [][(/\ authLast.op = "LoginWithGoogle"
        /\ authLast'.op = "LoginWithGoogle"
        /\ authLast.faultG = "nil" /\ authLast.faultE = "nil"
        /\ authLast'.faultG = "nil" /\ authLast'.faultE = "nil"
        /\ authLast'.googleID = authLast.googleID
        /\ authLast'.email = authLast.email)
          => /\ authLast.err = "nil"
             /\ authLast'.err = "nil"
             /\ Val(authLast'.user).ID = Val(authLast.user).ID
             /\ users' = users]_vars

\* The repeated call follows a first call that linked the provider id onto a
\* password account.
C12_Witness ==
    /\ authLast.op = "LoginWithGoogle"
    /\ authLast.faultG = "nil" /\ authLast.faultE = "nil"
    /\ authLast.again
    /\ authLast.err = "nil"
    /\ IsSome(Val(authLast.user).PasswordHash)
    /\ Val(authLast.user).GoogleID = Some(authLast.googleID)

\* C13: when no stored user carries the provider id and a user with the email
\* exists, LoginWithGoogle returns that user with the same id, email and
\* password hash, now carrying the provider id, stores it so, and creates no user.
C13_AccountLinking ==
    [][(/\ authLast'.op = "LoginWithGoogle"
        /\ authLast'.faultG = "nil" /\ authLast'.faultE = "nil"
        /\ ~\E u \in users : u.GoogleID = Some(authLast'.googleID)
        /\ \E u \in users : u.Email = authLast'.email)
          => \E u \in users :
                /\ u.Email = authLast'.email
                /\ authLast'.err = "nil"
                /\ Val(authLast'.user).ID = u.ID
                /\ Val(authLast'.user).Email = u.Email
                /\ Val(authLast'.user).PasswordHash = u.PasswordHash
                /\ Val(authLast'.user).GoogleID = Some(authLast'.googleID)
                /\ users' = (users \ {u}) \cup {Val(authLast'.user)}
                /\ Cardinality(users') = Cardinality(users)]_vars

\* The linked account keeps a password hash and another account exists beside it.
C13_Witness ==
    /\ authLast.op = "LoginWithGoogle"
    /\ authLast.faultG = "nil" /\ authLast.faultE = "nil"
    /\ ~authLast.again
    /\ authLast.err = "nil"
    /\ IsSome(Val(authLast.user).PasswordHash)
    /\ Val(authLast.user).GoogleID = Some(authLast.googleID)
    /\ Cardinality(users) = 2

\* C14: an access token validated by ValidateAccessToken at the instant
\* GenerateAccessToken minted it is accepted, and the claims returned carry the
\* user id and the email it was minted for.
C14_AccessTokenRoundTrip ==
    (/\ tokLast.op = "ValidateAccessToken"
     /\ tokLast.of.by = "GenerateAccessToken"
     /\ tokLast.at = tokLast.of.at)
        => /\ tokLast.err = "nil"
           /\ IsSome(tokLast.claims)
           /\ Val(tokLast.claims).UserID = tokLast.of.userID
           /\ Val(tokLast.claims).Email = tokLast.of.email

\* The token was minted between two whole seconds, for the second user and email.
C14_Witness ==
    /\ tokLast.op = "ValidateAccessToken"
    /\ tokLast.of.by = "GenerateAccessToken"
    /\ tokLast.at = tokLast.of.at
    /\ tokLast.at % TicksPerSecond # 0
    /\ tokLast.err = "nil"
    /\ Val(tokLast.claims).UserID = "u2"
    /\ Val(tokLast.claims).Email = "b@x"

\* C15: an access token minted at time t is accepted by ValidateAccessToken at
\* every time in [t, t + accessDuration) and rejected with the expiry error and
\* no claims at every time after t + accessDuration.
C15_AccessTokenExpiry ==
    (tokLast.op = "ValidateAccessToken" /\ tokLast.of.by = "GenerateAccessToken")
        => /\ (tokLast.at < tokLast.of.at + accessDuration) => tokLast.err = "nil"
           /\ (tokLast.at > tokLast.of.at + accessDuration)
                 => (tokLast.err = "ErrTokenExpired" /\ tokLast.claims = None)

\* C16: GenerateTokens returns an access and a refresh token; validated at that
\* instant both are accepted, and whenever accepted ValidateAccessToken yields
\* claims with the user's id and ValidateRefreshToken returns the user's id.
C16_TokenPairRoundTrip ==
    /\ tokLast.op = "GenerateTokens"
          => /\ tokLast.err = "nil"
             /\ IsSome(tokLast.accessToken) /\ IsSome(tokLast.refreshToken)
    /\ (tokLast.op = "ValidateAccessToken"
          /\ tokLast.of.via = "GenerateTokens" /\ tokLast.of.by = "GenerateAccessToken")
          => /\ tokLast.at = tokLast.of.at => tokLast.err = "nil"
             /\ tokLast.err = "nil" => Val(tokLast.claims).UserID = tokLast.of.userID
    /\ (tokLast.op = "ValidateRefreshToken"
          /\ tokLast.of.via = "GenerateTokens" /\ tokLast.of.by = "GenerateRefreshToken")
          => /\ tokLast.at = tokLast.of.at => tokLast.err = "nil"
             /\ tokLast.err = "nil" => tokLast.userID = tokLast.of.userID

\* The refresh token of a pair is validated after its access token has expired.
C16_Witness ==
    /\ tokLast.op = "ValidateRefreshToken"
    /\ tokLast.of.via = "GenerateTokens"
    /\ tokLast.of.by = "GenerateRefreshToken"
    /\ tokLast.at >= tokLast.of.at + accessDuration
    /\ tokLast.err = "nil"
    /\ tokLast.userID = tokLast.of.userID

\* C17: Create stores a transaction only when Categorize returned without error,
\* and then the draft exactly as Categorize left it; when the rule fetch inside
\* Categorize fails, Create returns that error and stores nothing.
C17_CreateAfterCategorize ==
    [][txLast'.op = "Create"
          => /\ txs' # txs => /\ txLast'.fetch = "nil"
                              /\ txLast'.err = "nil"
                              /\ txs' = txs \cup {Val(txLast'.tx)}
             /\ txLast'.fetch # "nil" => /\ txLast'.err = txLast'.fetch
                                         /\ txLast'.tx = None
                                         /\ txs' = txs]_vars

\* A Create of the user who has rules was cancelled during the rule fetch.
C17_Witness ==
    /\ txLast.op = "Create"
    /\ txLast.caller = "u1"
    /\ txLast.fetch = "ErrCanceled"
    /\ txLast.err = "ErrCanceled"
    /\ txs = {}

\* C18: Categorize on a draft with an empty description does not read the rule
\* store, returns no error, and returns the draft with category_id = null and
\* is_confirmed = false.
C18_EmptyDescriptionUncategorized ==
    (txLast.op = "Categorize" /\ txLast.draft.Description = <<>>)
        => /\ ~txLast.read
           /\ txLast.err = "nil"
           /\ txLast.result.CategoryID = None
           /\ txLast.result.IsConfirmed = FALSE

\* The errors that tell a caller the thing already exists.
ConflictErrors == {"ErrUserAlreadyExists", "ErrConflict"}

\* The finished CreateRule calls that reached the insert for (userID, keyword).
RuleCallsFor(userID, keyword) ==
    {p \in pending : /\ p.op = "CreateRule" /\ p.phase = "done"
                     /\ p.caller = userID /\ p.keyword = keyword
                     /\ CategoryRepoGetByID(p.categoryID) = "nil"}

\* C19: when two CreateRule calls for the same (user, keyword) have both
\* finished, exactly one rule for that (user, keyword) is stored, one call
\* succeeded and the other failed with a conflict / already-exists error.
C19_ConcurrentCreateRule ==
    \A userID \in UserIDs, keyword \in Keywords :
        Cardinality(RuleCallsFor(userID, keyword)) = 2
            => /\ Cardinality({r \in rules : r.UserID = userID /\ r.Keyword = keyword}) = 1
               /\ Cardinality({p \in RuleCallsFor(userID, keyword) : p.err = "nil"}) = 1
               /\ Cardinality({p \in RuleCallsFor(userID, keyword) :
                                  p.err \in ConflictErrors}) = 1

\* The finished Register calls for email whose password hashed.
RegisterCallsFor(email) ==
    {p \in pending : /\ p.op = "Register" /\ p.phase = "done" /\ p.email = email
                     /\ GenerateFromPassword(p.password, p.salt).err = "nil"}

\* C20: when two Register calls for one email have both passed the existence
\* check before either created, then once both have finished exactly one user
\* with that email is stored, one call succeeded and the other failed with
\* ErrUserAlreadyExists.
C20_ConcurrentRegister ==
    \A email \in Emails :
        (/\ Cardinality(RegisterCallsFor(email)) = 2
         /\ \E p \in RegisterCallsFor(email) : p.overlap)
            => /\ Cardinality({u \in users : u.Email = email}) = 1
               /\ Cardinality({p \in RegisterCallsFor(email) : p.err = "nil"}) = 1
               /\ Cardinality({p \in RegisterCallsFor(email) :
                                  p.err = "ErrUserAlreadyExists"}) = 1

\* The error of the first lookup that failed in the LoginWithGoogle call just
\* made: the lookup by provider id, or the lookup by email, which is made when
\* the first found no user.
FailedLookup ==
    IF authLast'.faultG # "nil" THEN authLast'.faultG
    ELSE IF \E u \in users : u.GoogleID = Some(authLast'.googleID) THEN "nil"
    ELSE authLast'.faultE

\* C21: a LoginWithGoogle call in which a lookup fails with an error other than
\* not-found returns that error and no user, and leaves the users table as it was.
C21_FederatedLookupErrorPropagates ==
    [][(authLast'.op = "LoginWithGoogle" /\ FailedLookup # "nil")
          => /\ authLast'.err = FailedLookup
             /\ authLast'.user = None
             /\ users' = users]_vars

\* C22: a Register or Login call whose lookup by email fails with an error other
\* than not-found returns that error and no user, and leaves the users table as
\* it was.
C22_LookupErrorPropagates ==
    [][(authLast'.op \in {"Register", "Login"} /\ authLast'.fault # "nil")
          => /\ authLast'.err = authLast'.fault
             /\ authLast'.user = None
             /\ users' = users]_vars

\* The lookup of a Register was cancelled for an email that has a user.
C22_Witness ==
    /\ authLast.op = "Register"
    /\ authLast.fault = "ErrCanceled"
    /\ authLast.err = "ErrCanceled"
    /\ UsersOfLastEmail # {}

\* C23: the response to a GetByID, Update or Delete request that names a
\* transaction of another user is the response the same request gets when no
\* transaction has that id.
C23_OwnershipIndistinguishable ==
    (/\ txLast.op \in OwnerChecked
     /\ txLast.phase = "check"
     /\ \E t \in txs : t.ID = txLast.id /\ t.UserID # txLast.caller)
        => txLast.response =
              Some(TxErrorResponse(txLast.op,
                       OwnerCheck(TxRepoDelete(txs, txLast.id), txLast.caller, txLast.id).err))

\* C24: a transaction listing whose query succeeds completes with a response whose
\* total is the number of the caller's transactions in the store, whatever the
\* limit and offset and however many rows the page holds.
C24_ListingTotalIndependentOfWindow ==
    (txLast.op = "GetAll" /\ txLast.err = "nil")
        => /\ txLast.result.outcome = "ok"
           /\ txLast.result.total =
                 Some(Cardinality({t \in txs : t.UserID = txLast.caller}))

\* C25: Refresh, given a refresh token that ValidateRefreshToken accepts at that
\* moment, answers 200 with a new token pair.
C25_RefreshIssuesTokenPair ==
    (/\ tokLast.op = "Refresh"
     /\ ValidateRefreshTokenResult(tokLast.of.token, tokLast.at).err = "nil")
        => /\ tokLast.response.status = 200
           /\ IsSome(tokLast.response.tokens)

\* C26: under any interleaving of Register and LoginWithGoogle calls no two stored
\* users share an email and no two share a federated id.
C26_IdentityUniqueness ==
    \A u, v \in users :
        u # v => /\ u.Email # v.Email
                 /\ IsSome(u.GoogleID) => u.GoogleID # v.GoogleID

\* Two first-time federated logins with the same provider id and email ran
\* concurrently: both passed their lookups before either wrote, and both are done.
C26_Witness ==
    \E p, q \in pending :
        /\ p.op = "LoginWithGoogle" /\ q.op = "LoginWithGoogle" /\ p.call # q.call
        /\ p.googleID = q.googleID /\ p.email = q.email
        /\ p.phase = "done" /\ q.phase = "done" /\ q.overlap
        /\ p.err = "nil" /\ q.err # "nil"
        /\ Cardinality(users) = 1

\* C27: every stored user has a password hash or a federated id; a call of
\* Register, Login or LoginWithGoogle leaves each stored user stored with every
\* anchor it had, and a user it adds has exactly one anchor.
C27_AnchorsOnlyGrow ==
    [][/\ \A u \in users' : IsSome(u.PasswordHash) \/ IsSome(u.GoogleID)
       /\ \A u \in users :
             \E w \in users' :
                /\ w.ID = u.ID
                /\ IsSome(u.PasswordHash) => IsSome(w.PasswordHash)
                /\ IsSome(u.GoogleID) => IsSome(w.GoogleID)
       /\ \A w \in users' :
             (\A u \in users : u.ID # w.ID)
                => IsSome(w.PasswordHash) # IsSome(w.GoogleID)]_vars

\* A registered user, with a password only until then, has just been linked by
\* a federated login and now has both anchors.
C27_Witness ==
    /\ authLast.op = "LoginWithGoogle" /\ authLast.err = "nil"
    /\ \E r \in registered, u \in users :
          /\ r.user.ID = u.ID
          /\ IsNone(r.user.GoogleID)
          /\ IsSome(u.PasswordHash) /\ IsSome(u.GoogleID)
          /\ authLast.user = Some(u)

\* C28: a call of Register, Login or LoginWithGoogle leaves every stored user
\* that has a federated id stored with that same federated id.
C28_FederatedIdStable ==
    [][\A u \in users :
          IsSome(u.GoogleID)
             => \E w \in users' : w.ID = u.ID /\ w.GoogleID = u.GoogleID]_vars

\* C29: the middleware calls the protected handler exactly when the header is
\* "Bearer", one space, a token that ValidateAccessToken accepts at that moment,
\* and then the context holds the user id and email of the token's claims; on
\* every other request it answers 401 and does not call the handler.
C29_MiddlewareGuardsHandler ==
    tokLast.op = "Middleware"
        => LET v == ValidateAccessTokenResult(tokLast.of.token, tokLast.at)
           IN  IF tokLast.form = "bearer" /\ v.err = "nil"
               THEN /\ tokLast.result.invoked
                    /\ tokLast.result.ctx =
                          Some([user_id |-> Val(v.claims).UserID, email |-> Val(v.claims).Email])
               ELSE /\ ~tokLast.result.invoked
                    /\ tokLast.result.status = 401
                    /\ tokLast.result.ctx = None

\* A request with a well-formed header and an access token in its validity
\* window has reached the handler with the identity the token was minted for.
C29_Witness ==
    /\ tokLast.op = "Middleware"
    /\ tokLast.form = "bearer"
    /\ tokLast.of.by = "GenerateAccessToken"
    /\ tokLast.result.invoked
    /\ tokLast.result.ctx = Some([user_id |-> tokLast.of.userID, email |-> tokLast.of.email])

\* C30: a Categorize call writes to no table; the draft leaves it with its id,
\* user and description as they were; and a call on the same draft with the same
\* fetched rule list as the call before it leaves the same category_id and
\* is_confirmed.
C30_CategorizeFrame ==
    [][txLast'.op = "Categorize"
          => /\ rules' = rules /\ txs' = txs
             /\ nextRuleID' = nextRuleID /\ nextTxID' = nextTxID
             /\ txLast'.result.ID = txLast'.draft.ID
             /\ txLast'.result.UserID = txLast'.draft.UserID
             /\ txLast'.result.Description = txLast'.draft.Description
             /\ (/\ txLast.op = "Categorize"
                 /\ txLast.draft = txLast'.draft
                 /\ txLast.fetched = txLast'.fetched
                 /\ txLast.err = "nil" /\ txLast'.err = "nil")
                   => /\ txLast'.result.CategoryID = txLast.result.CategoryID
                      /\ txLast'.result.IsConfirmed = txLast.result.IsConfirmed]_vars

\* A draft with a mixed-case description and another category has been
\* categorized by a rule: its category and confirmation changed, nothing else.
C30_Witness ==
    /\ txLast.op = "Categorize" /\ txLast.err = "nil"
    /\ Len(txLast.fetched) = 2
    /\ txLast.draft.Description # ToUpper(txLast.draft.Description)
    /\ IsSome(txLast.draft.CategoryID)
    /\ txLast.result.CategoryID # txLast.draft.CategoryID
    /\ ~txLast.draft.IsConfirmed /\ txLast.result.IsConfirmed
    /\ rules # {}
====
